---- MODULE Spec2Model ----
(***************************************************************************)
(* Timeline editing state of the browser video editor: the VideoPlayer     *)
(* component (playhead, duration, delete/extract range selection) and the  *)
(* VideoEditor component that hosts it (current video, trim range).        *)
(*                                                                         *)
(* Times are integers in units of 0.1 s, so the 0.1 s minimum width is 1   *)
(* and the 30 s default trim end is 300.  A JavaScript number that is not  *)
(* a time is one of three markers: Null (null), NaN and Infinity.          *)
(***************************************************************************)
EXTENDS Integers, FiniteSets, Sequences, TLC

\* ---------------------------------------------------------------- bounds
\* Largest timeline position a click, a numeric entry or a short asset uses.
MaxTime == 3

\* Videos ever created in one run (recordings and processing results).
MaxVideos == 3
\* Requests awaiting a response at the same time.
MaxPending == 2

\* ------------------------------------------------------------- constants
\* null of a `number | null` state field.
Null == -2
\* videoElement.duration before metadata is known.  Every comparison the
\* code makes against it (duration > 0, end <= duration) is false, as it is
\* for -1 against the non-negative times of the model.
NaN == -1
\* videoElement.duration of an unbounded stream; above every time.
Infinity == 9999
\* Math.abs(end - start) > 0.1
MinRangeWidth == 1
\* useState(30) / setTrimEnd(30) / Math.min(duration, 30)
DefaultTrimEnd == 300

\* Positions a click can produce and durations of short assets.
Times == 0..MaxTime
\* Durations of assets longer than the default trim end.
LongDurations == {DefaultTrimEnd + 1, DefaultTrimEnd + 2}
\* Durations of the short assets.
ShortDurations == {MaxTime - 1, MaxTime}
\* Values videoElement.duration can take when an event handler reads it.
ElementDurations == {NaN, 0, Infinity} \cup ShortDurations

\* ------------------------------------------------------ number helpers
IsFinite(x) == x # NaN /\ x # Infinity

Min(a, b) == IF a < b THEN a ELSE b

Max(a, b) == IF a > b THEN a ELSE b

Abs(x) == IF x < 0 THEN -x ELSE x

\* ----------------------------------------------------------- variables
VARIABLES
    \* VideoPlayer props: whether the host passed the callback
    onDeleteRange, onExtractRange,
    \* VideoPlayer state
    currentTime, duration,
    deleteRangeStart, deleteRangeEnd, isSelectingDeleteRange,
    extractRangeStart, extractRangeEnd, isSelectingExtractRange,
    \* videoRef.current.currentTime
    videoTime,
    \* the callback invoked by the last step, with the state it was invoked from
    emitted,
    \* VideoEditor state
    currentVideo, videos, activeTab, isProcessing,
    \* the id the next created VideoFile gets (Date.now() only grows)
    nextId,
    \* FileManager state: the id the confirmation modal asks about, or none
    showDeleteConfirm,
    trimStart, trimEnd, currentVideoTime, videoDuration,
    \* VideoEditControls state
    isProcessingLocal,
    \* requests awaiting the server's response, by kind
    pending,
    \* the last request a route of /api/video handled: its parameters, the
    \* temporary files it left in tmpdir(), and its response
    server

propVars == <<onDeleteRange, onExtractRange>>

deleteVars == <<deleteRangeStart, deleteRangeEnd, isSelectingDeleteRange>>

extractVars == <<extractRangeStart, extractRangeEnd, isSelectingExtractRange>>

playerVars == <<currentTime, duration, deleteVars, extractVars, videoTime>>

libraryVars == <<currentVideo, videos, activeTab, nextId, showDeleteConfirm>>

requestVars == <<isProcessing, isProcessingLocal, pending>>

trimVars == <<trimStart, trimEnd>>

editorVars == <<libraryVars, requestVars, trimVars, currentVideoTime, videoDuration>>

serverVars == <<server>>

vars == <<propVars, playerVars, emitted, editorVars, serverVars>>

\* No callback was invoked by the last step.
NoCall == [kind |-> "none", start |-> 0, end |-> 0, rawStart |-> 0, rawEnd |-> 0]

\* The last step was a commit handler that returned without a call.
Rejected == [kind |-> "rejected", start |-> 0, end |-> 0, rawStart |-> 0, rawEnd |-> 0]

\* onDeleteRange(s, e) / onExtractRange(s, e), made from the stored bounds rs, re
RangeCall(k, s, e, rs, re) ==
    [kind |-> k, start |-> s, end |-> e, rawStart |-> rs, rawEnd |-> re]

RangeEmitted == emitted.kind \in {"deleteRange", "extractRange"}

\* The controls of VideoEditControls that call onTrimDataChange.
TrimControls == {"startEntry", "endEntry", "reset", "adjust", "drag"}

\* onTrimDataChange(s, e), made by control k from the input value v while the
\* other bound (the end for a start edit, the start for an end edit) was o
TrimDataCall(k, s, e, v, o) ==
    [kind |-> k, start |-> s, end |-> e, rawStart |-> v, rawEnd |-> o]

\* onSplit(num / den): the split time is kept as a fraction, so that the
\* midpoint duration / 2 of an odd duration is exact
SplitCall(num, den) ==
    [kind |-> "split", start |-> num, end |-> den, rawStart |-> num, rawEnd |-> den]

SplitEmitted == emitted.kind = "split"

\* The request processVideo(operation) sends, built from the trim range of the
\* render the button was clicked in: startTime is start and duration is end
\* for a trim; a speed request carries neither
ProcessCall(operation, ts, te) ==
    IF operation = "trim"
    THEN [kind |-> "trim", start |-> ts, end |-> te - ts, rawStart |-> ts, rawEnd |-> te]
    ELSE [kind |-> "speed", start |-> 0, end |-> 0, rawStart |-> 0, rawEnd |-> 0]

\* alert(...) of the catch block of a request handler
AlertCall == [kind |-> "alert", start |-> 0, end |-> 0, rawStart |-> 0, rawEnd |-> 0]

\* A route's handling of one request: status is the response's, files the
\* temporary files of the request that exist when the response is returned;
\* for delete-range, start, end and duration are deleteStartTime,
\* deleteEndTime and videoDuration, passed tells that both 400 checks were
\* passed, planned holds the parts hasPart1 / hasPart2 ask for, and output the
\* parts the returned video is made of, in order.
Handled(r, st, fs, s, e, d, ok, pl, out) ==
    [route |-> r, status |-> st, files |-> fs, start |-> s, end |-> e,
     duration |-> d, passed |-> ok, planned |-> pl, output |-> out]

\* No request was handled yet.
NoRequest == Handled("none", 0, {}, 0, 0, 0, FALSE, {}, <<>>)

\* ------------------------------------------------------------ VideoPlayer
\* currentVideo of an editor with no video selected.
NoVideo == 0

\* {activeTab === 'edit' && currentVideo && (<VideoPlayer .../> ...)}
PlayerMounted == activeTab = "edit" /\ currentVideo # NoVideo

\* percentage * duration for a click whose position corresponds to time t
NewTime(t, d) == IF d = Infinity THEN (IF t = 0 THEN NaN ELSE Infinity) ELSE t

\* hasValidDeleteRange without the 0.1 s threshold.
hasValidDeleteRange_AnyWidth ==
    /\ deleteRangeStart # Null
    /\ deleteRangeEnd # Null
    /\ Abs(deleteRangeEnd - deleteRangeStart) > 0

hasValidDeleteRange ==
    /\ deleteRangeStart # Null
    /\ deleteRangeEnd # Null
    /\ Abs(deleteRangeEnd - deleteRangeStart) > MinRangeWidth

hasValidExtractRange ==
    /\ extractRangeStart # Null
    /\ extractRangeEnd # Null
    /\ Abs(extractRangeEnd - extractRangeStart) > MinRangeWidth

\* The branches of handleSeek once newTime passed the range check.
SeekBranches(newTime) ==
    IF isSelectingDeleteRange
    THEN /\ IF deleteRangeStart = Null
            THEN /\ deleteRangeStart' = newTime
                 /\ UNCHANGED <<deleteRangeEnd, isSelectingDeleteRange>>
            ELSE /\ deleteRangeEnd' = newTime
                 /\ isSelectingDeleteRange' = FALSE
                 /\ UNCHANGED deleteRangeStart
         /\ UNCHANGED <<extractVars, videoTime>>
    ELSE IF isSelectingExtractRange
    THEN /\ IF extractRangeStart = Null
            THEN /\ extractRangeStart' = newTime
                 /\ UNCHANGED <<extractRangeEnd, isSelectingExtractRange>>
            ELSE /\ extractRangeEnd' = newTime
                 /\ isSelectingExtractRange' = FALSE
                 /\ UNCHANGED extractRangeStart
         /\ UNCHANGED <<deleteVars, videoTime>>
    ELSE IF deleteRangeStart = Null /\ onDeleteRange
    THEN /\ deleteRangeStart' = newTime
         /\ isSelectingDeleteRange' = TRUE
         /\ UNCHANGED <<deleteRangeEnd, extractVars, videoTime>>
    ELSE IF extractRangeStart = Null /\ onExtractRange
    THEN /\ extractRangeStart' = newTime
         /\ isSelectingExtractRange' = TRUE
         /\ UNCHANGED <<extractRangeEnd, deleteVars, videoTime>>
    ELSE /\ videoTime' = newTime
         /\ UNCHANGED <<deleteVars, extractVars>>

\* onClick of the progress bar, at the position of time t
HandleSeek(t) ==
    /\ PlayerMounted
    /\ duration > 0
    /\ t <= duration
    /\ LET newTime == NewTime(t, duration)
       IN IF IsFinite(newTime) /\ newTime >= 0 /\ newTime <= duration
          THEN SeekBranches(newTime)
          ELSE UNCHANGED <<deleteVars, extractVars, videoTime>>
    /\ emitted' = NoCall
    /\ UNCHANGED <<serverVars, propVars, currentTime, duration, editorVars>>

\* onClick of "Select Range to Delete"
SelectRangeToDelete ==
    /\ PlayerMounted
    /\ onDeleteRange
    /\ ~isSelectingDeleteRange /\ ~hasValidDeleteRange
    /\ isSelectingDeleteRange' = TRUE
    /\ deleteRangeStart' = Null
    /\ deleteRangeEnd' = Null
    /\ emitted' = NoCall
    /\ UNCHANGED <<serverVars, propVars, currentTime, duration, extractVars, videoTime, editorVars>>

\* onClick of "Select Range to Extract"
SelectRangeToExtract ==
    /\ PlayerMounted
    /\ onExtractRange
    /\ ~isSelectingExtractRange /\ ~hasValidExtractRange
    /\ isSelectingExtractRange' = TRUE
    /\ extractRangeStart' = Null
    /\ extractRangeEnd' = Null
    /\ emitted' = NoCall
    /\ UNCHANGED <<serverVars, propVars, currentTime, duration, deleteVars, videoTime, editorVars>>

clearDeleteRange ==
    /\ deleteRangeStart' = Null
    /\ deleteRangeEnd' = Null
    /\ isSelectingDeleteRange' = FALSE

clearExtractRange ==
    /\ extractRangeStart' = Null
    /\ extractRangeEnd' = Null
    /\ isSelectingExtractRange' = FALSE

\* onClick of "Cancel Selection" (shown while selecting) and of "Clear"
\* (shown while the range is valid), both bound to clearDeleteRange
ClearDeleteRange ==
    /\ PlayerMounted
    /\ onDeleteRange
    /\ isSelectingDeleteRange \/ hasValidDeleteRange
    /\ clearDeleteRange
    /\ emitted' = NoCall
    /\ UNCHANGED <<serverVars, propVars, currentTime, duration, extractVars, videoTime, editorVars>>

ClearExtractRange ==
    /\ PlayerMounted
    /\ onExtractRange
    /\ isSelectingExtractRange \/ hasValidExtractRange
    /\ clearExtractRange
    /\ emitted' = NoCall
    /\ UNCHANGED <<serverVars, propVars, currentTime, duration, deleteVars, videoTime, editorVars>>

\* The VideoEditControls effect that resets the trim end, for trim end te and
\* video duration vd.
ResetTrimEndEffect(te, vd) ==
    IF vd > 0 /\ te > vd THEN Min(vd, DefaultTrimEnd) ELSE te

\* The editor's trim end after a VideoEditControls mounts while the editor's
\* trim end is te and its video duration vd: useState(externalTrimEnd || 30)
\* starts a trim end of 0 as 30 locally, and the reset effect of the first
\* render reports min(vd, 30) back to the editor when the local value exceeds vd.
MountTrimEnd(te, vd) ==
    LET local == IF te = 0 THEN DefaultTrimEnd ELSE te
    IN IF vd > 0 /\ local > vd THEN Min(vd, DefaultTrimEnd) ELSE te

\* The editor's trim end after a step that leaves video v on tab tab with trim
\* end te and video duration vd, once the effects of VideoEditControls ran.
TrimEndAcross(v, tab, te, vd) ==
    IF tab = "edit" /\ v # NoVideo
    THEN IF PlayerMounted THEN ResetTrimEndEffect(te, vd) ELSE MountTrimEnd(te, vd)
    ELSE te

\* useState initial values of a VideoPlayer that has just mounted (or is not
\* rendered), with its <video> element at the start of its source.
FreshPlayer ==
    /\ currentTime' = 0
    /\ duration' = 0
    /\ clearDeleteRange
    /\ clearExtractRange
    /\ videoTime' = 0

\* The player across a step that leaves the editor with video v on tab tab:
\* it keeps its state while it stays rendered (the element restarts when its
\* src changes), and starts fresh when it is rendered anew.
PlayerAcross(v, tab) ==
    IF PlayerMounted /\ tab = "edit" /\ v # NoVideo
    THEN /\ videoTime' = IF v = currentVideo THEN videoTime ELSE 0
         /\ UNCHANGED <<currentTime, duration, deleteVars, extractVars>>
    ELSE FreshPlayer

\* ------------------------------------------------- requests to the server
RequestKinds == {"process", "staleProcess", "split", "deleteRange"}

PendingTotal ==
    pending["process"] + pending["staleProcess"] + pending["split"] + pending["deleteRange"]

\* VideoEditControls across the same step, which would leave its flag at
\* local and the requests at pend: a newly rendered instance starts with
\* isProcessingLocal false, and the request of an instance that is gone can no
\* longer reach the state of the one on screen.
ControlsAcross(v, tab, local, pend) ==
    IF PlayerMounted /\ tab = "edit" /\ v # NoVideo
    THEN /\ isProcessingLocal' = local
         /\ pending' = pend
    ELSE /\ isProcessingLocal' = FALSE
         /\ pending' = [pend EXCEPT !["process"] = 0,
                                    !["staleProcess"] = @ + pend["process"]]

\* ------------------------------------------------- VideoPlayer: commits
\* executeDeleteRange with the range check on the raw bounds and the call made
\* in click order.
ExecuteCall_RawOrder(kind, a, b, d) ==
    IF a # Null /\ b # Null /\ a # b /\ Min(a, b) >= 0 /\ Max(a, b) <= d
    THEN RangeCall(kind, a, b, a, b)
    ELSE Rejected

\* executeDeleteRange without the end <= duration test.
ExecuteCall_NoDurationCheck(kind, a, b, d) ==
    IF a # Null /\ b # Null /\ Min(a, b) < Max(a, b) /\ Min(a, b) >= 0
    THEN RangeCall(kind, Min(a, b), Max(a, b), a, b)
    ELSE Rejected

\* The call executeDeleteRange / executeExtractRange makes from the stored
\* bounds a and b with the stored duration d, or Rejected when it makes none.
ExecuteCall(kind, a, b, d) ==
    IF a # Null /\ b # Null
    THEN LET start == Min(a, b)
             end == Max(a, b)
         IN IF start < end /\ start >= 0 /\ end <= d
            THEN RangeCall(kind, start, end, a, b)
            ELSE Rejected
    ELSE Rejected

\* executeDeleteRange that drops the stored range also when it makes no call.
executeDeleteRange_ClearsAlways ==
    /\ PlayerMounted
    /\ LET call == IF onDeleteRange
                   THEN ExecuteCall("deleteRange", deleteRangeStart, deleteRangeEnd, duration)
                   ELSE Rejected
       IN /\ emitted' = call
          /\ clearDeleteRange
          /\ IF call # Rejected
             THEN /\ PendingTotal < MaxPending
                  /\ isProcessing' = TRUE
                  /\ pending' = [pending EXCEPT !["deleteRange"] = @ + 1]
             ELSE UNCHANGED <<isProcessing, pending>>
    /\ UNCHANGED <<serverVars, propVars, currentTime, duration, extractVars, videoTime,
                   libraryVars, isProcessingLocal, trimVars, currentVideoTime, videoDuration>>

\* executeDeleteRange, called in any state of the player; its callback is
\* VideoEditor.handleDeleteRange up to its first await
executeDeleteRange ==
    /\ PlayerMounted
    /\ LET call == IF onDeleteRange
                   THEN ExecuteCall("deleteRange", deleteRangeStart, deleteRangeEnd, duration)
                   ELSE Rejected
       IN /\ emitted' = call
          /\ IF call # Rejected
             THEN /\ PendingTotal < MaxPending
                  /\ isProcessing' = TRUE
                  /\ pending' = [pending EXCEPT !["deleteRange"] = @ + 1]
                  /\ clearDeleteRange
             ELSE UNCHANGED <<isProcessing, pending, deleteVars>>
    /\ UNCHANGED <<serverVars, propVars, currentTime, duration, extractVars, videoTime,
                   libraryVars, isProcessingLocal, trimVars, currentVideoTime, videoDuration>>

\* executeExtractRange, called in any state of the player
executeExtractRange ==
    /\ PlayerMounted
    /\ LET call == IF onExtractRange
                   THEN ExecuteCall("extractRange", extractRangeStart, extractRangeEnd, duration)
                   ELSE Rejected
       IN /\ emitted' = call
          /\ IF call # Rejected
             THEN clearExtractRange
             ELSE UNCHANGED extractVars
    /\ UNCHANGED <<serverVars, propVars, currentTime, duration, deleteVars, videoTime, editorVars>>

\* onClick of "Delete Selected Range", rendered while the delete range is valid
ExecuteDeleteRange ==
    /\ onDeleteRange
    /\ hasValidDeleteRange
    /\ executeDeleteRange

\* onClick of "Extract Selected Range", rendered while the extract range is valid
ExecuteExtractRange ==
    /\ onExtractRange
    /\ hasValidExtractRange
    /\ executeExtractRange

\* ------------------------------------------- VideoPlayer: media events
\* VideoEditor.handleVideoDurationChange(d), followed by the effect
handleVideoDurationChange(d) ==
    /\ videoDuration' = d
    /\ LET newEnd == IF trimEnd > d THEN Min(d, DefaultTrimEnd) ELSE trimEnd
       IN trimEnd' = ResetTrimEndEffect(newEnd, d)
    /\ UNCHANGED trimStart

\* The body shared by handleDurationChange and handleLoadedMetadata, with d
\* the value of videoElement.duration
DurationReport(d) ==
    /\ PlayerMounted
    /\ duration' = d
    /\ IF IsFinite(d) /\ d > 0
       THEN handleVideoDurationChange(d)
       ELSE UNCHANGED <<trimVars, videoDuration>>
    /\ emitted' = NoCall
    /\ UNCHANGED <<serverVars, propVars, currentTime, deleteVars, extractVars, videoTime,
                   libraryVars, requestVars, currentVideoTime>>

HandleDurationChange(d) == DurationReport(d)

HandleLoadedMetadata(d) == DurationReport(d)

\* handleTimeUpdate, whose callback is VideoEditor.handleVideoTimeUpdate
HandleTimeUpdate ==
    /\ PlayerMounted
    /\ currentTime' = videoTime
    /\ currentVideoTime' = videoTime
    /\ emitted' = NoCall
    /\ UNCHANGED <<serverVars, propVars, duration, deleteVars, extractVars, videoTime,
                   libraryVars, requestVars, trimVars, videoDuration>>

\* isInTrimRange of a player rendered with showTrimMarkers, as VideoEditor
\* renders it: trimEnd ? currentTime <= trimEnd : true
isInTrimRange ==
    /\ currentTime >= trimStart
    /\ IF trimEnd # 0 THEN currentTime <= trimEnd ELSE TRUE

\* The element plays on by one step.
Playback ==
    /\ PlayerMounted
    /\ videoTime < MaxTime
    /\ videoTime < duration
    /\ videoTime' = videoTime + 1
    /\ emitted' = NoCall
    /\ UNCHANGED <<serverVars, propVars, currentTime, duration, deleteVars, extractVars, editorVars>>

\* skip(10) / skip(-10), in units of 0.1 s
SkipSeconds == 100

\* The position the <video> element takes when its currentTime is assigned t:
\* at most the end of the media; without metadata the assignment only sets
\* the position playback will start from.
ElementSeek(t) ==
    IF duration = NaN \/ duration = 0 THEN videoTime
    ELSE IF duration = Infinity THEN t
    ELSE Max(0, Min(t, duration))

\* skip(seconds): onClick of the skip buttons
Skip(seconds) ==
    /\ PlayerMounted
    /\ duration > 0
    /\ LET newTime == Max(0, Min(duration, currentTime + seconds))
       IN /\ newTime <= SkipSeconds + MaxTime
          /\ videoTime' = IF IsFinite(newTime) THEN ElementSeek(newTime) ELSE videoTime
    /\ emitted' = NoCall
    /\ UNCHANGED <<serverVars, propVars, currentTime, duration, deleteVars, extractVars, editorVars>>

\* jumpToTrimStart: onClick of Start under the progress bar
JumpToTrimStart ==
    /\ PlayerMounted
    /\ videoTime' = ElementSeek(trimStart)
    /\ emitted' = NoCall
    /\ UNCHANGED <<serverVars, propVars, currentTime, duration, deleteVars, extractVars, editorVars>>

\* jumpToTrimEnd: onClick of End, rendered while trimEnd is not 0
JumpToTrimEnd ==
    /\ PlayerMounted
    /\ trimEnd # 0
    /\ videoTime' = ElementSeek(trimEnd)
    /\ emitted' = NoCall
    /\ UNCHANGED <<serverVars, propVars, currentTime, duration, deleteVars, extractVars, editorVars>>

\* ------------------------------------------------------------ VideoEditor
\* handleVideoSelect(v): a click on a video of the FileManager sidebar
HandleVideoSelect(v) ==
    /\ v \in videos
    /\ currentVideo' = v
    /\ activeTab' = "edit"
    /\ trimStart' = 0
    /\ trimEnd' = DefaultTrimEnd
    /\ videoDuration' = 0
    /\ currentVideoTime' = 0
    /\ PlayerAcross(v, "edit")
    /\ ControlsAcross(v, "edit", isProcessingLocal, pending)
    /\ emitted' = NoCall
    /\ UNCHANGED <<serverVars, propVars, showDeleteConfirm, videos, nextId, isProcessing>>

\* handleDeleteRange after its awaits, the server having answered with a video
DeleteRangeSucceeds ==
    /\ pending["deleteRange"] > 0
    /\ nextId <= MaxVideos
    /\ videos' = videos \cup {nextId}
    /\ currentVideo' = nextId
    /\ nextId' = nextId + 1
    /\ isProcessing' = FALSE
    /\ PlayerAcross(nextId, activeTab)
    /\ ControlsAcross(nextId, activeTab, isProcessingLocal,
                      [pending EXCEPT !["deleteRange"] = @ - 1])
    /\ trimEnd' = TrimEndAcross(nextId, activeTab, trimEnd, videoDuration)
    /\ emitted' = NoCall
    /\ UNCHANGED <<serverVars, propVars, showDeleteConfirm, activeTab, trimStart, currentVideoTime, videoDuration>>

\* handleDeleteRange after its awaits, a fetch having failed: catch, finally
DeleteRangeFails ==
    /\ pending["deleteRange"] > 0
    /\ isProcessing' = FALSE
    /\ pending' = [pending EXCEPT !["deleteRange"] = @ - 1]
    /\ emitted' = AlertCall
    /\ UNCHANGED <<serverVars, propVars, playerVars, libraryVars, isProcessingLocal,
                   trimVars, currentVideoTime, videoDuration>>

\* handleVideoRecorded: the recorder of the record tab delivers a recording
HandleVideoRecorded ==
    /\ activeTab = "record"
    /\ nextId <= MaxVideos
    /\ videos' = videos \cup {nextId}
    /\ currentVideo' = nextId
    /\ nextId' = nextId + 1
    /\ activeTab' = "edit"
    /\ trimEnd' = TrimEndAcross(nextId, "edit", trimEnd, videoDuration)
    /\ PlayerAcross(nextId, "edit")
    /\ ControlsAcross(nextId, "edit", isProcessingLocal, pending)
    /\ emitted' = NoCall
    /\ UNCHANGED <<serverVars, propVars, showDeleteConfirm, isProcessing, trimStart, currentVideoTime, videoDuration>>

\* SetActiveTab with the Edit button never disabled.
SetActiveTab_NeverDisabled(tab) ==
    /\ tab \in {"record", "edit", "files"}
    /\ activeTab' = tab
    /\ trimEnd' = TrimEndAcross(currentVideo, tab, trimEnd, videoDuration)
    /\ PlayerAcross(currentVideo, tab)
    /\ ControlsAcross(currentVideo, tab, isProcessingLocal, pending)
    /\ emitted' = NoCall
    /\ UNCHANGED <<serverVars, propVars, showDeleteConfirm, currentVideo, videos, nextId, isProcessing,
                   trimStart, currentVideoTime, videoDuration>>

\* onClick of the Record / Edit / Files buttons of the header
SetActiveTab(tab) ==
    /\ tab = "edit" => currentVideo # NoVideo
    /\ activeTab' = tab
    /\ trimEnd' = TrimEndAcross(currentVideo, tab, trimEnd, videoDuration)
    /\ PlayerAcross(currentVideo, tab)
    /\ ControlsAcross(currentVideo, tab, isProcessingLocal, pending)
    /\ emitted' = NoCall
    /\ UNCHANGED <<serverVars, propVars, showDeleteConfirm, currentVideo, videos, nextId, isProcessing,
                   trimStart, currentVideoTime, videoDuration>>

\* ------------------------------------------------------------ FileManager
\* handleVideoDelete that removes the current video, whichever was asked for.
handleVideoDelete_RemovesCurrent(videoId) ==
    /\ videos' = videos \ {currentVideo}
    /\ IF currentVideo = videoId
       THEN /\ currentVideo' = NoVideo
            /\ activeTab' = "record"
            /\ FreshPlayer
            /\ ControlsAcross(NoVideo, "record", isProcessingLocal, pending)
       ELSE UNCHANGED <<currentVideo, activeTab, playerVars, isProcessingLocal, pending>>
    /\ UNCHANGED <<nextId, isProcessing, trimVars, currentVideoTime, videoDuration>>

\* VideoEditor.handleVideoDelete(videoId): the player and the controls are no
\* longer rendered when the deleted video was the current one
handleVideoDelete(videoId) ==
    /\ videos' = videos \ {videoId}
    /\ IF currentVideo = videoId
       THEN /\ currentVideo' = NoVideo
            /\ activeTab' = "record"
            /\ FreshPlayer
            /\ ControlsAcross(NoVideo, "record", isProcessingLocal, pending)
       ELSE UNCHANGED <<currentVideo, activeTab, playerVars, isProcessingLocal, pending>>
    /\ UNCHANGED <<nextId, isProcessing, trimVars, currentVideoTime, videoDuration>>

\* deleteVideo(videoId, event): a click on the trash button of a video of the
\* sidebar; stopPropagation keeps the click from selecting the video
DeleteVideo(videoId) ==
    /\ videoId \in videos
    /\ showDeleteConfirm' = videoId
    /\ emitted' = NoCall
    /\ UNCHANGED <<serverVars, propVars, playerVars, currentVideo, videos, activeTab, nextId,
                   requestVars, trimVars, currentVideoTime, videoDuration>>

\* onClick of Cancel of the confirmation modal, which is rendered while
\* showDeleteConfirm is set and the library is not empty
CancelDelete ==
    /\ showDeleteConfirm # NoVideo
    /\ videos # {}
    /\ showDeleteConfirm' = NoVideo
    /\ emitted' = NoCall
    /\ UNCHANGED <<serverVars, propVars, playerVars, currentVideo, videos, activeTab, nextId,
                   requestVars, trimVars, currentVideoTime, videoDuration>>

\* onClick of Delete of the confirmation modal: confirmDelete(video) for the
\* video found under showDeleteConfirm, nothing when there is none
ConfirmDelete ==
    /\ showDeleteConfirm # NoVideo
    /\ videos # {}
    /\ IF showDeleteConfirm \in videos
       THEN /\ handleVideoDelete(showDeleteConfirm)
            /\ showDeleteConfirm' = NoVideo
       ELSE UNCHANGED <<playerVars, libraryVars, requestVars, trimVars,
                        currentVideoTime, videoDuration>>
    /\ emitted' = NoCall
    /\ UNCHANGED <<serverVars, propVars>>

\* ------------------------------------------------------ VideoEditControls
\* NewTrimStart clamped to the end itself, without the 0.1 s gap.
NewTrimStart_NoGap(value, currentEnd) ==
    Max(0, Min(value, currentEnd))

\* Math.max(0, Math.min(value, currentEnd - 0.1))
NewTrimStart(value, currentEnd) ==
    Max(0, Min(value, currentEnd - MinRangeWidth))

\* Math.min(maxDuration, Math.max(value, currentStart + 0.1))
NewTrimEnd(value, currentStart, maxDuration) ==
    Min(maxDuration, Max(value, currentStart + MinRangeWidth))

\* onChange of the Start Time input with a parsed value
StartTimeChange(value) ==
    /\ PlayerMounted
    /\ ~isProcessingLocal
    /\ IF IsFinite(value)
       THEN LET newStart == NewTrimStart(value, trimEnd)
            IN /\ trimStart' = newStart
               /\ trimEnd' = ResetTrimEndEffect(trimEnd, videoDuration)
               /\ emitted' = TrimDataCall("startEntry", newStart, trimEnd, value, trimEnd)
       ELSE /\ UNCHANGED trimVars
            /\ emitted' = NoCall
    /\ UNCHANGED <<serverVars, propVars, playerVars, libraryVars, requestVars,
                   currentVideoTime, videoDuration>>

\* onChange of the End Time input with a parsed value
EndTimeChange(value) ==
    /\ PlayerMounted
    /\ ~isProcessingLocal
    /\ IF IsFinite(value)
       THEN LET maxValue == videoDuration
                newEnd == NewTrimEnd(value, trimStart, maxValue)
            IN /\ trimEnd' = ResetTrimEndEffect(newEnd, videoDuration)
               /\ UNCHANGED trimStart
               /\ emitted' = TrimDataCall("endEntry", trimStart, newEnd, value, trimStart)
       ELSE /\ UNCHANGED trimVars
            /\ emitted' = NoCall
    /\ UNCHANGED <<serverVars, propVars, playerVars, libraryVars, requestVars,
                   currentVideoTime, videoDuration>>

\* onClick of Reset
ResetTrim ==
    /\ PlayerMounted
    /\ ~isProcessingLocal
    /\ trimStart' = 0
    /\ trimEnd' = ResetTrimEndEffect(Min(DefaultTrimEnd, videoDuration), videoDuration)
    /\ emitted' = TrimDataCall("reset", 0, Min(DefaultTrimEnd, videoDuration), 0, DefaultTrimEnd)
    /\ UNCHANGED <<serverVars, propVars, playerVars, libraryVars, requestVars,
                   currentVideoTime, videoDuration>>

\* Trim bounds the model follows the +/-0.1 buttons and the handles to: the
\* neighbourhoods of 0 and of the default trim end.
TrimGrid == (0..(MaxTime + 1)) \cup ((DefaultTrimEnd - 1)..(DefaultTrimEnd + 2))

\* safeVideoDuration: the timeline's length while the duration is unknown
SafeDuration == 1000

safeVideoDuration == IF videoDuration > 0 THEN videoDuration ELSE SafeDuration

\* adjustTrimTime(type, delta): onClick of the +/-0.1 buttons
AdjustTrimTime(type, delta) ==
    /\ PlayerMounted
    /\ ~isProcessingLocal
    /\ IF type = "start"
       THEN LET newStart == NewTrimStart(trimStart + delta, trimEnd)
            IN /\ newStart \in TrimGrid
               /\ trimStart' = newStart
               /\ trimEnd' = ResetTrimEndEffect(trimEnd, videoDuration)
               /\ emitted' = TrimDataCall("adjust", newStart, trimEnd, trimStart + delta, trimEnd)
       ELSE LET maxDuration == videoDuration
                newEnd == NewTrimEnd(trimEnd + delta, trimStart, maxDuration)
            IN /\ newEnd \in TrimGrid
               /\ trimEnd' = ResetTrimEndEffect(newEnd, videoDuration)
               /\ UNCHANGED trimStart
               /\ emitted' = TrimDataCall("adjust", trimStart, newEnd, trimEnd + delta, trimStart)
    /\ UNCHANGED <<serverVars, propVars, playerVars, libraryVars, requestVars,
                   currentVideoTime, videoDuration>>

\* A drag of a trim handle: handleMouseDown(type), a mousemove that is
\* deltaTime away from the press, and the mouseup
DragHandle(type, deltaTime) ==
    /\ PlayerMounted
    /\ IF type = "start"
       THEN LET newStart == NewTrimStart(trimStart + deltaTime, trimEnd)
            IN /\ newStart \in TrimGrid
               /\ trimStart' = newStart
               /\ trimEnd' = ResetTrimEndEffect(trimEnd, videoDuration)
               /\ emitted' = TrimDataCall("drag", newStart, trimEnd, trimStart + deltaTime, trimEnd)
       ELSE LET newEnd == NewTrimEnd(trimEnd + deltaTime, trimStart, safeVideoDuration)
            IN /\ newEnd \in TrimGrid
               /\ trimEnd' = ResetTrimEndEffect(newEnd, videoDuration)
               /\ UNCHANGED trimStart
               /\ emitted' = TrimDataCall("drag", trimStart, newEnd, trimEnd + deltaTime, trimStart)
    /\ UNCHANGED <<serverVars, propVars, playerVars, libraryVars, requestVars,
                   currentVideoTime, videoDuration>>

\* ProcessVideo with a Trim Video button that an empty range does not disable.
ProcessVideo_EmptyRangeAllowed(operation) ==
    /\ PlayerMounted
    /\ ~isProcessingLocal
    /\ PendingTotal < MaxPending
    /\ isProcessingLocal' = TRUE
    /\ isProcessing' = TRUE
    /\ pending' = [pending EXCEPT !["process"] = @ + 1]
    /\ emitted' = ProcessCall(operation, trimStart, trimEnd)
    /\ UNCHANGED <<serverVars, propVars, playerVars, libraryVars, trimVars,
                   currentVideoTime, videoDuration>>

\* onClick of Trim Video / Change Speed: processVideo up to its first await
ProcessVideo(operation) ==
    /\ PlayerMounted
    /\ ~isProcessingLocal
    /\ operation = "trim" => ~(trimEnd <= trimStart)
    /\ PendingTotal < MaxPending
    /\ isProcessingLocal' = TRUE
    /\ isProcessing' = TRUE
    /\ pending' = [pending EXCEPT !["process"] = @ + 1]
    /\ emitted' = ProcessCall(operation, trimStart, trimEnd)
    /\ UNCHANGED <<serverVars, propVars, playerVars, libraryVars, trimVars,
                   currentVideoTime, videoDuration>>

\* processVideo after its awaits, the server having answered with a video:
\* onVideoProcessed is VideoEditor.handleVideoProcessed; kind tells whether
\* the VideoEditControls that sent the request is still the one on screen
ProcessSucceeds(kind) ==
    /\ kind \in {"process", "staleProcess"}
    /\ pending[kind] > 0
    /\ nextId <= MaxVideos
    /\ videos' = videos \cup {nextId}
    /\ currentVideo' = nextId
    /\ nextId' = nextId + 1
    /\ isProcessing' = FALSE
    /\ trimEnd' = TrimEndAcross(nextId, activeTab, trimEnd, videoDuration)
    /\ PlayerAcross(nextId, activeTab)
    /\ ControlsAcross(nextId, activeTab,
                      IF kind = "process" THEN FALSE ELSE isProcessingLocal,
                      [pending EXCEPT ![kind] = @ - 1])
    /\ emitted' = NoCall
    /\ UNCHANGED <<serverVars, propVars, showDeleteConfirm, activeTab, trimStart, currentVideoTime, videoDuration>>

\* ProcessFails whose finally block leaves the controls' own flag set.
ProcessFails_KeepsLocal(kind) ==
    /\ kind \in {"process", "staleProcess"}
    /\ pending[kind] > 0
    /\ isProcessing' = FALSE
    /\ isProcessingLocal' = isProcessingLocal
    /\ pending' = [pending EXCEPT ![kind] = @ - 1]
    /\ emitted' = AlertCall
    /\ UNCHANGED <<serverVars, propVars, playerVars, libraryVars, trimVars,
                   currentVideoTime, videoDuration>>

\* processVideo after its awaits, a fetch having failed: catch, finally
ProcessFails(kind) ==
    /\ kind \in {"process", "staleProcess"}
    /\ pending[kind] > 0
    /\ isProcessing' = FALSE
    /\ isProcessingLocal' = IF kind = "process" THEN FALSE ELSE isProcessingLocal
    /\ pending' = [pending EXCEPT ![kind] = @ - 1]
    /\ emitted' = AlertCall
    /\ UNCHANGED <<serverVars, propVars, playerVars, libraryVars, trimVars,
                   currentVideoTime, videoDuration>>

\* onClick of "Split in Half": VideoPlayer.handleSplit, whose callback is
\* VideoEditor.handleVideoSplit up to its first await
HandleSplit ==
    /\ PlayerMounted
    /\ ~(duration = NaN \/ duration = 0 \/ duration <= 0)
    /\ IF IsFinite(duration) /\ duration > 0
       THEN /\ PendingTotal < MaxPending
            /\ isProcessing' = TRUE
            /\ pending' = [pending EXCEPT !["split"] = @ + 1]
            /\ emitted' = SplitCall(duration, 2)
       ELSE /\ UNCHANGED <<isProcessing, pending>>
            /\ emitted' = NoCall
    /\ UNCHANGED <<serverVars, propVars, playerVars, libraryVars, isProcessingLocal,
                   trimVars, currentVideoTime, videoDuration>>

\* onClick of the split button of the player variant that splits at the
\* current time: its handleSplit, whose callback is handleVideoSplit as above
HandleSplitAtCurrentTime ==
    /\ PlayerMounted
    /\ ~(currentTime <= 0 \/ (duration # NaN /\ currentTime >= duration))
    /\ IF currentTime > 0 /\ duration # NaN /\ currentTime < duration
       THEN /\ PendingTotal < MaxPending
            /\ isProcessing' = TRUE
            /\ pending' = [pending EXCEPT !["split"] = @ + 1]
            /\ emitted' = SplitCall(currentTime, 1)
       ELSE /\ UNCHANGED <<isProcessing, pending>>
            /\ emitted' = NoCall
    /\ UNCHANGED <<serverVars, propVars, playerVars, libraryVars, isProcessingLocal,
                   trimVars, currentVideoTime, videoDuration>>

\* handleVideoSplit after its awaits, the server having answered with two parts
SplitSucceeds ==
    /\ pending["split"] > 0
    /\ nextId + 1 <= MaxVideos
    /\ videos' = videos \cup {nextId, nextId + 1}
    /\ currentVideo' = nextId
    /\ nextId' = nextId + 2
    /\ isProcessing' = FALSE
    /\ trimEnd' = TrimEndAcross(nextId, activeTab, trimEnd, videoDuration)
    /\ PlayerAcross(nextId, activeTab)
    /\ ControlsAcross(nextId, activeTab, isProcessingLocal,
                      [pending EXCEPT !["split"] = @ - 1])
    /\ emitted' = NoCall
    /\ UNCHANGED <<serverVars, propVars, showDeleteConfirm, activeTab, trimStart, currentVideoTime, videoDuration>>

\* handleVideoSplit after its awaits, a fetch having failed: catch, finally
SplitFails ==
    /\ pending["split"] > 0
    /\ isProcessing' = FALSE
    /\ pending' = [pending EXCEPT !["split"] = @ - 1]
    /\ emitted' = AlertCall
    /\ UNCHANGED <<serverVars, propVars, playerVars, libraryVars, isProcessingLocal,
                   trimVars, currentVideoTime, videoDuration>>

\* ------------------------------------------------- the routes of /api/video
\* JavaScript's comparisons of the numbers parseFloat returned: every
\* comparison with NaN is false.
JsLt(a, b) == a # NaN /\ b # NaN /\ a < b

JsLe(a, b) == a # NaN /\ b # NaN /\ a <= b

JsGt(a, b) == a # NaN /\ b # NaN /\ a > b

JsGe(a, b) == a # NaN /\ b # NaN /\ a >= b

\* The values parseFloat gives for the time fields of a form.
FormTimes == {NaN} \cup Times

\* The values parseFloat gives for the speed field: none, zero, a speed the
\* route accepts, and one above its limit of 10.
FormSpeeds == {NaN, 0, 2, 11}

\* Durations the delete-range route detects, NaN when both methods failed.
ProbedDurations == {NaN} \cup (1..MaxTime)

\* The state of the editor, which no route touches.
clientVars == <<propVars, playerVars, emitted, editorVars>>

\* The concat list of the delete-range route: its unlink is started by the
\* end / error handler of the concatenation and never awaited, so the file
\* may still exist when the response is returned.
ConcatList(hasPart1, hasPart2, concatLeft) ==
    IF hasPart1 /\ hasPart2 /\ concatLeft THEN {"concat"} ELSE {}

\* POST of delete-range/route.ts from the request to the response: present
\* tells that the form has a file and both times, ds and de are
\* deleteStartTime and deleteEndTime, probed is the detected duration, fault
\* the FFmpeg run that fails, if it is run
DeleteRangeRoute(present, ds, de, probed, fault, concatLeft) ==
    IF ~present THEN Handled("deleteRange", 400, {}, 0, 0, 0, FALSE, {}, <<>>)
    ELSE IF JsGe(ds, de) THEN Handled("deleteRange", 400, {}, ds, de, 0, FALSE, {}, <<>>)
    ELSE IF probed = NaN THEN Handled("deleteRange", 500, {}, ds, de, NaN, FALSE, {}, <<>>)
    ELSE IF JsLe(ds, 0) /\ JsGe(de, probed)
    THEN Handled("deleteRange", 400, {"input"}, ds, de, probed, FALSE, {}, <<>>)
    ELSE LET hasPart1 == JsGt(ds, 0)
             hasPart2 == JsLt(de, probed)
             planned == (IF hasPart1 THEN {"part1"} ELSE {}) \cup
                        (IF hasPart2 THEN {"part2"} ELSE {})
             left == ConcatList(hasPart1, hasPart2, concatLeft)
         IN IF (fault = "part1" /\ hasPart1) \/ (fault = "part2" /\ hasPart2)
            THEN Handled("deleteRange", 500, {}, ds, de, probed, TRUE, planned, <<>>)
            ELSE IF planned = {}
            THEN Handled("deleteRange", 500, {}, ds, de, probed, TRUE, planned, <<>>)
            ELSE IF fault = "join"
            THEN Handled("deleteRange", 500, left, ds, de, probed, TRUE, planned, <<>>)
            ELSE Handled("deleteRange", 200, left, ds, de, probed, TRUE, planned,
                         IF hasPart1 /\ hasPart2 THEN <<"part1", "part2">>
                         ELSE IF hasPart1 THEN <<"part1">> ELSE <<"part2">>)

PostDeleteRange(present, ds, de, probed, fault, concatLeft) ==
    /\ server' = DeleteRangeRoute(present, ds, de, probed, fault, concatLeft)
    /\ UNCHANGED clientVars

\* POST of speed/route.ts: outputLeft tells whether a failed FFmpeg run left
\* its output file behind
PostSpeed(present, speed, fault, outputLeft) ==
    /\ server' =
          IF ~present THEN Handled("speed", 400, {}, 0, 0, 0, FALSE, {}, <<>>)
          ELSE IF JsLe(speed, 0) \/ JsGt(speed, 10)
          THEN Handled("speed", 400, {}, speed, 0, 0, FALSE, {}, <<>>)
          ELSE IF fault
          THEN Handled("speed", 500,
                       {"input"} \cup (IF outputLeft THEN {"output"} ELSE {}),
                       speed, 0, 0, TRUE, {}, <<>>)
          ELSE Handled("speed", 200, {}, speed, 0, 0, TRUE, {}, <<"output">>)
    /\ UNCHANGED clientVars

\* POST of the trim route: its catch block unlinks both paths
PostTrim(present, fault) ==
    /\ server' =
          IF ~present THEN Handled("trim", 400, {}, 0, 0, 0, FALSE, {}, <<>>)
          ELSE IF fault
          THEN Handled("trim", 500, {}, 0, 0, 0, TRUE, {}, <<>>)
          ELSE Handled("trim", 200, {}, 0, 0, 0, TRUE, {}, <<"output">>)
    /\ UNCHANGED clientVars

\* POST of the split route: its catch block unlinks the three paths
PostSplit(present, fault) ==
    /\ server' =
          IF ~present THEN Handled("split", 400, {}, 0, 0, 0, FALSE, {}, <<>>)
          ELSE IF fault
          THEN Handled("split", 500, {}, 0, 0, 0, TRUE, {}, <<>>)
          ELSE Handled("split", 200, {}, 0, 0, 0, TRUE, {"part1", "part2"},
                       <<"part1", "part2">>)
    /\ UNCHANGED clientVars

\* POST of the extract-range route: es and ee are extractStart and extractEnd
PostExtractRange(present, es, ee, fault, outputLeft) ==
    /\ server' =
          IF ~present THEN Handled("extractRange", 400, {}, 0, 0, 0, FALSE, {}, <<>>)
          ELSE IF es = NaN \/ ee = NaN \/ es >= ee
          THEN Handled("extractRange", 400, {}, es, ee, 0, FALSE, {}, <<>>)
          ELSE IF fault
          THEN Handled("extractRange", 500,
                       {"input"} \cup (IF outputLeft THEN {"output"} ELSE {}),
                       es, ee, 0, TRUE, {}, <<>>)
          ELSE Handled("extractRange", 200, {}, es, ee, 0, TRUE, {}, <<"output">>)
    /\ UNCHANGED clientVars

\* --------------------------------------------- the player in its editor
\* An editor whose first recording is open on the edit tab, hosting a player
\* with any combination of the two range callbacks.  The video changes when
\* the result of a delete-range request becomes current.
InitPlayer ==
    /\ onDeleteRange \in BOOLEAN
    /\ onExtractRange \in BOOLEAN
    /\ currentTime = 0
    /\ duration = 0
    /\ deleteRangeStart = Null /\ deleteRangeEnd = Null /\ isSelectingDeleteRange = FALSE
    /\ extractRangeStart = Null /\ extractRangeEnd = Null /\ isSelectingExtractRange = FALSE
    /\ videoTime = 0
    /\ emitted = NoCall
    /\ currentVideo = 1
    /\ videos = {1}
    /\ nextId = 2
    /\ showDeleteConfirm = NoVideo
    /\ server = NoRequest
    /\ activeTab = "edit"
    /\ isProcessing = FALSE
    /\ isProcessingLocal = FALSE
    /\ pending = [k \in RequestKinds |-> 0]
    /\ trimStart = 0
    /\ trimEnd = DefaultTrimEnd
    /\ currentVideoTime = 0
    /\ videoDuration = 0

NextPlayer ==
    \/ \E t \in Times : HandleSeek(t)
    \/ SelectRangeToDelete
    \/ SelectRangeToExtract
    \/ ClearDeleteRange
    \/ ClearExtractRange
    \/ ExecuteDeleteRange
    \/ ExecuteExtractRange
    \/ \E d \in ElementDurations : HandleDurationChange(d)
    \/ \E d \in ElementDurations : HandleLoadedMetadata(d)
    \/ DeleteRangeSucceeds

SpecPlayer == InitPlayer /\ [][NextPlayer]_vars

\* The same player with its two commit functions called in any state, also
\* where their buttons are not rendered.
NextCommit ==
    \/ \E t \in Times : HandleSeek(t)
    \/ SelectRangeToDelete
    \/ SelectRangeToExtract
    \/ ClearDeleteRange
    \/ ClearExtractRange
    \/ executeDeleteRange
    \/ executeExtractRange
    \/ \E d \in ElementDurations : HandleDurationChange(d)
    \/ \E d \in ElementDurations : HandleLoadedMetadata(d)
    \/ DeleteRangeFails

SpecCommit == InitPlayer /\ [][NextCommit]_vars


\* ------------------------------------------------- the editor's trim range
\* Values typed into the Start Time and End Time inputs.
TrimEntries == Times \cup {DefaultTrimEnd + 1}

\* Distances a handle is dragged by.
DragDeltas == {-DefaultTrimEnd, -1, 1, MaxTime}

\* Values videoElement.duration takes while short and long assets load.
AssetDurations == ElementDurations \cup LongDurations

\* VideoEditor after construction, its player wired as VideoEditor wires it.
InitTrim ==
    /\ onDeleteRange = TRUE
    /\ onExtractRange = FALSE
    /\ currentTime = 0
    /\ duration = 0
    /\ deleteRangeStart = Null /\ deleteRangeEnd = Null /\ isSelectingDeleteRange = FALSE
    /\ extractRangeStart = Null /\ extractRangeEnd = Null /\ isSelectingExtractRange = FALSE
    /\ videoTime = 0
    /\ emitted = NoCall
    /\ currentVideo = NoVideo
    /\ videos = {}
    /\ nextId = 1
    /\ showDeleteConfirm = NoVideo
    /\ server = NoRequest
    /\ activeTab = "record"
    /\ isProcessing = FALSE
    /\ isProcessingLocal = FALSE
    /\ pending = [k \in RequestKinds |-> 0]
    /\ trimStart = 0
    /\ trimEnd = DefaultTrimEnd
    /\ currentVideoTime = 0
    /\ videoDuration = 0

NextTrim ==
    \/ HandleVideoRecorded
    \/ \E v \in videos : HandleVideoSelect(v)
    \/ \E tab \in {"record", "edit", "files"} : SetActiveTab(tab)
    \/ \E d \in AssetDurations : HandleDurationChange(d)
    \/ \E d \in AssetDurations : HandleLoadedMetadata(d)
    \/ \E value \in TrimEntries : StartTimeChange(value)
    \/ \E value \in TrimEntries : EndTimeChange(value)
    \/ ResetTrim
    \/ \E operation \in {"trim", "speed"} : ProcessVideo(operation)
    \/ \E kind \in {"process", "staleProcess"} : ProcessSucceeds(kind)
    \/ \E kind \in {"process", "staleProcess"} : ProcessFails(kind)
    \/ HandleSplit
    \/ SplitSucceeds
    \/ SplitFails

SpecTrim == InitTrim /\ [][NextTrim]_vars

\* ------------------------------------------------ editing the trim range
\* The editor with its first recording open on the edit tab, wired as
\* VideoEditor wires its player; the trim range is edited by every control of
\* VideoEditControls while assets load and report their durations.
InitEditing ==
    /\ onDeleteRange = TRUE
    /\ onExtractRange = FALSE
    /\ currentTime = 0
    /\ duration = 0
    /\ deleteRangeStart = Null /\ deleteRangeEnd = Null /\ isSelectingDeleteRange = FALSE
    /\ extractRangeStart = Null /\ extractRangeEnd = Null /\ isSelectingExtractRange = FALSE
    /\ videoTime = 0
    /\ emitted = NoCall
    /\ currentVideo = 1
    /\ videos = {1}
    /\ nextId = 2
    /\ showDeleteConfirm = NoVideo
    /\ server = NoRequest
    /\ activeTab = "edit"
    /\ isProcessing = FALSE
    /\ isProcessingLocal = FALSE
    /\ pending = [k \in RequestKinds |-> 0]
    /\ trimStart = 0
    /\ trimEnd = DefaultTrimEnd
    /\ currentVideoTime = 0
    /\ videoDuration = 0

NextTrimEdit ==
    \/ \E v \in videos : HandleVideoSelect(v)
    \/ \E d \in AssetDurations : HandleDurationChange(d)
    \/ \E d \in AssetDurations : HandleLoadedMetadata(d)
    \/ \E value \in TrimEntries : StartTimeChange(value)
    \/ \E value \in TrimEntries : EndTimeChange(value)
    \/ ResetTrim
    \/ \E type \in {"start", "end"}, delta \in {-MinRangeWidth, MinRangeWidth} :
          AdjustTrimTime(type, delta)
    \/ \E type \in {"start", "end"}, deltaTime \in DragDeltas : DragHandle(type, deltaTime)

SpecTrimEdit == InitEditing /\ [][NextTrimEdit]_vars

\* ------------------------------------------------ selection properties
DeleteActive ==
    isSelectingDeleteRange \/ deleteRangeStart # Null \/ deleteRangeEnd # Null

ExtractActive ==
    isSelectingExtractRange \/ extractRangeStart # Null \/ extractRangeEnd # Null

DeleteCleared ==
    deleteRangeStart = Null /\ deleteRangeEnd = Null /\ ~isSelectingDeleteRange

ExtractCleared ==
    extractRangeStart = Null /\ extractRangeEnd = Null /\ ~isSelectingExtractRange

\* The props VideoEditor passes to its player: onDeleteRange and no onExtractRange.
EditorWiring == onDeleteRange /\ ~onExtractRange

\* C1: whenever a delete selection is in progress or stored, the extract
\* selection is undefined and not in progress, and vice versa.
C1_MutualExclusion == ~(DeleteActive /\ ExtractActive)

\* C2: every range handed to onDeleteRange / onExtractRange is wider than the
\* 0.1 s minimum.
C2_MinimumWidth ==
    RangeEmitted => emitted.end - emitted.start > MinRangeWidth

\* A commit of the narrowest range the minimum allows.
C2_Witness ==
    RangeEmitted /\ emitted.end - emitted.start = MinRangeWidth + 1

\* C3: after a valid duration report d below the trim end, the trim end is
\* min(d, 30 s) and the trim start does not exceed it.
C3_TrimDurationClamp ==
    [][\A d \in AssetDurations :
         (IsFinite(d) /\ d > 0 /\ d < trimEnd /\ DurationReport(d))
            => (trimEnd' = Min(d, DefaultTrimEnd) /\ trimStart' <= trimEnd')]_vars

\* C4: in the player as the editor wires it, a timeline click at t while no
\* delete or extract selection exists or is in progress seeks the element to
\* t and starts no selection.
C4_IdleClickSeeks ==
    [][\A t \in Times :
         (/\ EditorWiring
          /\ DeleteCleared /\ ExtractCleared
          /\ IsFinite(duration)
          /\ HandleSeek(t))
            => (videoTime' = t /\ DeleteCleared' /\ ExtractCleared')]_vars

\* C5: the range a commit emits is the two clicked times in ascending order,
\* whichever was clicked first.
C5_ClickOrderIndependence ==
    RangeEmitted =>
        /\ emitted.start <= emitted.end
        /\ {emitted.start, emitted.end} = {emitted.rawStart, emitted.rawEnd}

\* A commit of a range whose second click lay before its first.
C5_Witness == RangeEmitted /\ emitted.rawStart > emitted.rawEnd

\* C6: requesting extract mode while a delete selection has its start chosen
\* discards the delete selection and arms extract with no start, and
\* symmetrically for requesting delete mode while mid-extract.
C6_ModeSwitchDiscards ==
    [][/\ (isSelectingDeleteRange /\ deleteRangeStart # Null /\ SelectRangeToExtract)
            => (DeleteCleared' /\ isSelectingExtractRange' /\ extractRangeStart' = Null)
       /\ (isSelectingExtractRange /\ extractRangeStart # Null /\ SelectRangeToDelete)
            => (ExtractCleared' /\ isSelectingDeleteRange' /\ deleteRangeStart' = Null)]_vars

\* C7: in the player as the editor wires it, a duration report that leaves
\* the end of a ready delete or extract range beyond the new duration
\* discards that range.
C7_StaleRangeDiscarded ==
    [][EditorWiring =>
         /\ (/\ hasValidDeleteRange
             /\ IsFinite(duration') /\ duration' > 0
             /\ Max(deleteRangeStart, deleteRangeEnd) > duration') => DeleteCleared'
         /\ (/\ hasValidExtractRange
             /\ IsFinite(duration') /\ duration' > 0
             /\ Max(extractRangeStart, extractRangeEnd) > duration') => ExtractCleared']_vars

\* C8: every emitted range lies inside the duration stored at the commit:
\* 0 <= start < end <= duration.
C8_CommitWithinDuration ==
    RangeEmitted =>
        /\ 0 <= emitted.start
        /\ emitted.start < emitted.end
        /\ emitted.end <= duration

\* A commit against a duration that a later report made shorter, of a range
\* that reaches the new end.
C8_Witness ==
    RangeEmitted /\ duration = MaxTime - 1 /\ emitted.end = duration

\* C9: whenever another video becomes current, the editor's playhead and
\* duration are reset to 0 and the trim range to its default, [0, 30 s] or,
\* clamped to the duration hint 0 of a new VideoFile, [0, 0].
C9_AssetLoadResetsClockAndTrim ==
    [][(currentVideo' # currentVideo /\ currentVideo' # NoVideo)
          => /\ currentVideoTime' = 0
             /\ videoDuration' = 0
             /\ trimStart' = 0
             /\ trimEnd' \in {DefaultTrimEnd, Min(DefaultTrimEnd, 0)}]_vars

\* C10: in the player as the editor wires it, whenever the current video
\* changes, no delete or extract selection survives the change.
C10_AssetChangeClearsSelection ==
    [][(EditorWiring /\ currentVideo' # currentVideo)
          => (DeleteCleared' /\ ExtractCleared')]_vars

\* C15: in the player as the editor wires it, a duration report that is not
\* finite or not positive, arriving while a duration is known, changes
\* neither the player's duration nor the editor's, nor the playhead, nor the
\* trim range.
C15_InvalidDurationIgnored ==
    [][\A d \in ElementDurations :
         (/\ EditorWiring
          /\ IsFinite(duration) /\ duration > 0
          /\ ~(IsFinite(d) /\ d > 0)
          /\ DurationReport(d))
            => UNCHANGED <<duration, videoDuration, currentTime, trimStart, trimEnd>>]_vars

\* The delete (extract) selection has no start or no end.
DeleteIncomplete == deleteRangeStart = Null \/ deleteRangeEnd = Null

ExtractIncomplete == extractRangeStart = Null \/ extractRangeEnd = Null

\* C16: a commit called while its selection has no start or no end -- also
\* while the range of the other kind is ready -- makes no call and changes
\* no selection field.
C16_IllegalCommitRejected ==
    [][/\ (DeleteIncomplete /\ executeDeleteRange)
            => (emitted' = Rejected /\ UNCHANGED <<deleteVars, extractVars>>)
       /\ (ExtractIncomplete /\ executeExtractRange)
            => (emitted' = Rejected /\ UNCHANGED <<deleteVars, extractVars>>)]_vars

\* A rejected commit while a delete selection has only its start and the
\* extract selection is empty.
C16_Witness ==
    /\ emitted = Rejected
    /\ deleteRangeStart # Null /\ deleteRangeEnd = Null /\ isSelectingDeleteRange
    /\ extractRangeStart = Null /\ extractRangeEnd = Null

\* C17: in the player as the editor wires it, a commit from a ready delete
\* (extract) range calls the callback with the normalized range and leaves
\* that selection cleared.
C17_CommitEmitsAndClears ==
    [][EditorWiring =>
       /\ (hasValidDeleteRange /\ ExecuteDeleteRange)
            => /\ emitted' = RangeCall("deleteRange",
                                        Min(deleteRangeStart, deleteRangeEnd),
                                        Max(deleteRangeStart, deleteRangeEnd),
                                        deleteRangeStart, deleteRangeEnd)
               /\ DeleteCleared'
       /\ (hasValidExtractRange /\ ExecuteExtractRange)
            => /\ emitted' = RangeCall("extractRange",
                                        Min(extractRangeStart, extractRangeEnd),
                                        Max(extractRangeStart, extractRangeEnd),
                                        extractRangeStart, extractRangeEnd)
               /\ ExtractCleared']_vars

\* C18: Cancel Selection / Clear leaves no delete and no extract selection in
\* progress or stored, and makes no call.
C18_CancelLeavesIdle ==
    [][(ClearDeleteRange \/ ClearExtractRange)
          => (DeleteCleared' /\ ExtractCleared' /\ emitted' = NoCall)]_vars

\* ------------------------------------------------- the player's clock
\* The player of an open video while it plays, is skipped and jumped through,
\* reports durations and is split, the parts replacing it as current video.
NextClock ==
    \/ Playback
    \/ HandleTimeUpdate
    \/ \E seconds \in {-SkipSeconds, SkipSeconds} : Skip(seconds)
    \/ JumpToTrimStart
    \/ JumpToTrimEnd
    \/ \E d \in ElementDurations : HandleDurationChange(d)
    \/ \E d \in ElementDurations : HandleLoadedMetadata(d)
    \/ HandleSplit
    \/ HandleSplitAtCurrentTime
    \/ SplitSucceeds
    \/ SplitFails

SpecClock == InitEditing /\ [][NextClock]_vars

\* C11: whenever the player's duration is known, its playhead lies in
\* [0, duration].
C11_ClockInvariant ==
    (IsFinite(duration) /\ duration > 0) =>
        (0 <= currentTime /\ currentTime <= duration)

\* C19: every onSplit call is made with a known duration and carries a time
\* strictly between 0 and that duration.
C19_SplitInsideDuration ==
    SplitEmitted =>
        /\ IsFinite(duration) /\ duration > 0
        /\ 0 < emitted.start
        /\ emitted.start < duration * emitted.end

\* ------------------------------------------------ trim range properties
\* C12: whenever the editor knows the duration, the trim range is valid:
\* 0 <= trimStart < trimEnd <= duration.
C12_TrimRangeValid ==
    videoDuration > 0 =>
        /\ 0 <= trimStart
        /\ trimStart < trimEnd
        /\ trimEnd <= videoDuration

\* C13: every +/-0.1 adjustment and every handle drag leaves the bounds at
\* least 0.1 s apart, the start at or above 0 and, when the duration is
\* known, the end at or below it.
C13_AdjustKeepsGap ==
    [][((\E type \in {"start", "end"}, delta \in {-MinRangeWidth, MinRangeWidth} :
            AdjustTrimTime(type, delta))
        \/ (\E type \in {"start", "end"}, deltaTime \in DragDeltas :
            DragHandle(type, deltaTime)))
          => /\ trimStart' + MinRangeWidth <= trimEnd'
             /\ 0 <= trimStart'
             /\ videoDuration > 0 => trimEnd' <= videoDuration]_vars

\* A start entered beyond the end, on an asset long enough to hold it.
ReversedStartEntry ==
    /\ emitted.kind = "startEntry"
    /\ emitted.rawStart > emitted.rawEnd
    /\ emitted.rawStart <= videoDuration

C20_OneEditInFlight == PendingTotal <= 1

\* ------------------------------------------------- requests that fail
\* The editor with its first recording open, wired as VideoEditor wires its
\* player: a delete range is selected and committed, the trim end is edited,
\* trim, speed and split requests are sent, tabs are switched while they are
\* awaited, and every request fails.
NextFailure ==
    \/ \E d \in ShortDurations : HandleDurationChange(d)
    \/ \E d \in ShortDurations : HandleLoadedMetadata(d)
    \/ \E t \in Times : HandleSeek(t)
    \/ SelectRangeToDelete
    \/ ClearDeleteRange
    \/ ExecuteDeleteRange
    \/ \E value \in Times : EndTimeChange(value)
    \/ \E tab \in {"edit", "files"} : SetActiveTab(tab)
    \/ \E operation \in {"trim", "speed"} : ProcessVideo(operation)
    \/ HandleSplit
    \/ \E kind \in {"process", "staleProcess"} : ProcessFails(kind)
    \/ SplitFails
    \/ DeleteRangeFails

SpecFailure == InitEditing /\ [][NextFailure]_vars

\* A step of a catch / finally block of a request handler.
RequestFails ==
    \/ \E kind \in {"process", "staleProcess"} : ProcessFails(kind)
    \/ SplitFails
    \/ DeleteRangeFails

\* What C21 says of a failure apart from the selection: no request is sent
\* by the failure, the library, the current video and the trim range are as
\* the failure found them, and the editor and the controls whose request
\* failed are no longer processing.
FailureSurfaced ==
    /\ UNCHANGED <<videos, currentVideo, trimStart, trimEnd>>
    /\ emitted' = AlertCall
    /\ PendingTotal' = PendingTotal - 1
    /\ ~isProcessing'
    /\ ProcessFails("process") => ~isProcessingLocal'

\* C21: a failed request sends no request, leaves the library, the current
\* video and the trim range as they were, leaves no delete and no extract
\* selection in progress or stored, and leaves the editor ready for a request.
C21_FailureLeavesIdle ==
    [][RequestFails => (FailureSurfaced /\ DeleteCleared' /\ ExtractCleared')]_vars

\* C21 as the code has it: a failed request sends no request, leaves the
\* library, the current video, the trim range and the selection fields as they
\* were, and leaves the editor ready for a request.
C21_FailureChangesNothing ==
    [][RequestFails => (FailureSurfaced /\ UNCHANGED <<deleteVars, extractVars>>)]_vars

\* A trim or speed request has just failed while a delete range is stored and
\* the trim end is not the default.
C21_Witness ==
    /\ emitted = AlertCall
    /\ hasValidDeleteRange
    /\ trimEnd # DefaultTrimEnd
    /\ ~isProcessingLocal

\* ------------------------------------------------------------ the library
\* VideoEditor after construction: videos are recorded, selected, deleted
\* through the confirmation modal, and replaced as current video by the
\* results of trim, speed, split and delete-range requests, which may arrive
\* after the current video was changed or deleted.
NextLibrary ==
    \/ HandleVideoRecorded
    \/ \E v \in videos : HandleVideoSelect(v)
    \/ \E tab \in {"record", "edit", "files"} : SetActiveTab(tab)
    \/ \E v \in videos : DeleteVideo(v)
    \/ CancelDelete
    \/ ConfirmDelete
    \/ HandleDurationChange(MaxTime)
    \/ HandleLoadedMetadata(MaxTime)
    \/ \E t \in {0, MaxTime} : HandleSeek(t)
    \/ SelectRangeToDelete
    \/ ExecuteDeleteRange
    \/ DeleteRangeSucceeds
    \/ \E operation \in {"trim", "speed"} : ProcessVideo(operation)
    \/ \E kind \in {"process", "staleProcess"} : ProcessSucceeds(kind)
    \/ HandleSplit
    \/ SplitSucceeds

SpecLibrary == InitTrim /\ [][NextLibrary]_vars

C29_LibraryConsistent ==
    /\ currentVideo = NoVideo \/ currentVideo \in videos
    /\ activeTab = "edit" => currentVideo # NoVideo

\* The library holds only a result, which is current on the record tab: its
\* source was deleted and the edit tab left.
C29_Witness ==
    /\ activeTab = "record"
    /\ currentVideo > 1
    /\ videos = {currentVideo}

\* ------------------------------------------------- the two-click protocol
\* The click at t is the second click of a delete (extract) selection.
SecondDeleteClick(t) ==
    /\ isSelectingDeleteRange /\ deleteRangeStart # Null
    /\ IsFinite(duration)
    /\ HandleSeek(t)

SecondExtractClick(t) ==
    /\ ~isSelectingDeleteRange
    /\ isSelectingExtractRange /\ extractRangeStart # Null
    /\ IsFinite(duration)
    /\ HandleSeek(t)

\* C23: a second click that gives a range of at most 0.1 s stores no range:
\* start and end are undefined again and nothing is being selected.
C23_NarrowRangeDiscarded ==
    [][\A t \in Times :
         /\ (SecondDeleteClick(t) /\ Abs(t - deleteRangeStart) <= MinRangeWidth)
               => DeleteCleared'
         /\ (SecondExtractClick(t) /\ Abs(t - extractRangeStart) <= MinRangeWidth)
               => ExtractCleared']_vars

\* The click at t is the first click after delete (extract) mode was requested.
FirstDeleteClick(t) ==
    /\ isSelectingDeleteRange /\ deleteRangeStart = Null
    /\ IsFinite(duration)
    /\ HandleSeek(t)

FirstExtractClick(t) ==
    /\ isSelectingExtractRange /\ extractRangeStart = Null
    /\ IsFinite(duration)
    /\ HandleSeek(t)

\* What C24 says of a step.
TwoClickStep ==
    \A t \in Times :
         /\ FirstDeleteClick(t)
               => /\ deleteRangeStart' = t /\ deleteRangeEnd' = deleteRangeEnd
                  /\ isSelectingDeleteRange'
                  /\ videoTime' = videoTime
         /\ SecondDeleteClick(t)
               => /\ deleteRangeStart' = deleteRangeStart /\ deleteRangeEnd' = t
                  /\ ~isSelectingDeleteRange'
                  /\ videoTime' = videoTime
         /\ (~isSelectingDeleteRange /\ ~DeleteIncomplete /\ HandleSeek(t))
               => UNCHANGED <<deleteRangeStart, deleteRangeEnd>>
         /\ FirstExtractClick(t)
               => /\ extractRangeStart' = t /\ extractRangeEnd' = extractRangeEnd
                  /\ isSelectingExtractRange'
                  /\ videoTime' = videoTime
         /\ (isSelectingExtractRange /\ extractRangeStart # Null
                /\ IsFinite(duration) /\ HandleSeek(t))
               => /\ extractRangeStart' = extractRangeStart /\ extractRangeEnd' = t
                  /\ ~isSelectingExtractRange'
                  /\ videoTime' = videoTime
         /\ (~isSelectingExtractRange /\ ~ExtractIncomplete /\ HandleSeek(t))
               => UNCHANGED <<extractRangeStart, extractRangeEnd>>

\* C24: the first click of a requested delete (extract) selection records its
\* time as the start and keeps selecting, the second click records its time
\* as the end and ends selecting, neither moves the playhead, and a click on
\* a completed range leaves the range as it is.
C24_TwoClickProtocol == [][TwoClickStep]_vars


\* ------------------------------------------------- the trim-range marker
\* The player of an open video plays while the trim range is entered and
\* reset and the element reports durations.
NextMarker ==
    \/ Playback
    \/ HandleTimeUpdate
    \/ \E d \in ElementDurations : HandleDurationChange(d)
    \/ \E d \in ElementDurations : HandleLoadedMetadata(d)
    \/ \E value \in Times : StartTimeChange(value)
    \/ \E value \in Times : EndTimeChange(value)
    \/ ResetTrim

SpecMarker == InitEditing /\ [][NextMarker]_vars

\* C25: the player's isInTrimRange is true exactly when
\* trimStart <= currentTime <= trimEnd.
C25_InTrimRangeExact ==
    PlayerMounted => (isInTrimRange <=> (trimStart <= currentTime /\ currentTime <= trimEnd))

\* ------------------------------------------------- requests in flight
\* C26: isProcessing is true exactly while a request is awaited.
C26_IndicatorAccurate == isProcessing <=> PendingTotal > 0

\* ------------------------------------------------- the server's routes
\* The five routes handle requests with any form fields, while FFmpeg runs
\* succeed or fail.
NextServer ==
    \/ \E present \in BOOLEAN, ds \in FormTimes, de \in FormTimes,
          probed \in ProbedDurations, fault \in {"none", "part1", "part2", "join"},
          concatLeft \in BOOLEAN :
            PostDeleteRange(present, ds, de, probed, fault, concatLeft)
    \/ \E present \in BOOLEAN, speed \in FormSpeeds, fault \in BOOLEAN,
          outputLeft \in BOOLEAN :
            PostSpeed(present, speed, fault, outputLeft)
    \/ \E present \in BOOLEAN, fault \in BOOLEAN : PostTrim(present, fault)
    \/ \E present \in BOOLEAN, fault \in BOOLEAN : PostSplit(present, fault)
    \/ \E present \in BOOLEAN, es \in FormTimes, ee \in FormTimes, fault \in BOOLEAN,
          outputLeft \in BOOLEAN :
            PostExtractRange(present, es, ee, fault, outputLeft)

SpecServer == InitTrim /\ [][NextServer]_vars

\* C27: when a route has returned its response, no temporary file of the
\* request is left.
C27_TempFilesRemoved == server.status # 0 => server.files = {}

\* C28: the delete-range route answers 400 when deleteStart >= deleteEnd or
\* when the range covers the whole video; a request that passes both checks
\* plans part 1 exactly when deleteStart > 0, part 2 exactly when
\* deleteEnd < duration, and at least one of them; the returned video is
\* part 1 followed by part 2, or the single part.
C28_DeleteRangeParts ==
    server.route = "deleteRange" =>
        /\ (server.start >= server.end /\ server.start # NaN /\ server.end # NaN)
              => server.status = 400
        /\ (server.duration > 0 /\ server.start # NaN /\ server.end # NaN
               /\ server.start <= 0 /\ server.end >= server.duration)
              => server.status = 400
        /\ server.passed =>
              /\ server.planned # {}
              /\ "part1" \in server.planned <=> JsGt(server.start, 0)
              /\ "part2" \in server.planned <=> JsLt(server.end, server.duration)
        /\ server.status = 200 =>
              server.output = IF server.planned = {"part1", "part2"}
                              THEN <<"part1", "part2">>
                              ELSE IF server.planned = {"part1"}
                              THEN <<"part1">> ELSE <<"part2">>

\* ------------------------------------------------- the trim request
\* C30: a trim request carries startTime >= 0 and a duration
\* trimEnd - trimStart > 0, and the controls on screen await at most one
\* request of their own.
C30_TrimRequestValid ==
    /\ emitted.kind = "trim" =>
          /\ emitted.start >= 0
          /\ emitted.end > 0
          /\ emitted.end = emitted.rawEnd - emitted.rawStart
    /\ pending["process"] <= 1
    /\ pending["process"] = 1 <=> isProcessingLocal

\* A trim request for a range that does not start at 0 has just been sent.
C30_Witness ==
    /\ emitted.kind = "trim"
    /\ emitted.start > 0
    /\ pending["process"] = 1

====
